---- MODULE Spec2Model ----
(***************************************************************************)
(* The tax metrics calculator of src/App.tsx (calculateAllMetrics and its  *)
(* inner calculateTax) with the static tables of the constants module.     *)
(*                                                                         *)
(* Numbers.  A JavaScript number is held as an exact rational <<n, d>>     *)
(* in lowest terms with d > 0; IEEE-754 rounding is not modelled.  NaN is  *)
(* <<0, 0>>, Infinity is <<1, 0>> and undefined is <<>>.  Currency amounts *)
(* are counted in units of 10^4 won, so that the largest bracket limit     *)
(* (3 * 10^11 won) fits the integers of the model checker; every currency  *)
(* constant of the tables is a whole number of such units, and rates,      *)
(* factors and margins are dimensionless.                                  *)
(*                                                                         *)
(* Strings.  An input string is a sequence of one-character strings over   *)
(* the digits, "+", "-", ".", " " and the letter "a", which stands for any *)
(* character that occurs in no numeric literal.                            *)
(*                                                                         *)
(* The App component.  Its state is the useState cells that the handlers   *)
(* of the form, handleViewResult and getAIAnalysis read and write; an      *)
(* action is one event handler together with the render that follows it,   *)
(* in which useMemo brings allCalculations up to date.  The cells of pure  *)
(* presentation (currentPage, companyName) are left out.  The unset        *)
(* settlement month (null) is held as -1.                                  *)
(***************************************************************************)
EXTENDS Integers, Sequences, FiniteSets, TLC

VARIABLES
    data,             \* the six input strings of the call
    settlementMonth,  \* argument: number of months of the period
    entityType,       \* argument: "individual", "corporate" or unset
    includeLocalTax,  \* argument
    taxCreditRate,    \* argument
    industry,         \* argument
    frame,            \* the locals of the body of calculateAllMetrics
    result,           \* the record calculateAllMetrics returned
    taxIncome,        \* the argument of a call of calculateTax
    taxBracket,       \* the local applicableBracket of that call
    taxOut,           \* what that call returned
    pc,               \* "idle", which function has returned, or "analysis":
                      \* handleViewResult is about to call getAIAnalysis
    yearsData,        \* App state: the input strings of the three years
    allCalculations,  \* App: the memoized results of the three years
    taxCreditType,    \* App state: "none", "startup", "special" or unset
    viewMode,         \* App state: "input" or "result"
    aiAnalysis,       \* App state: which text the analysis panel holds
    isLoadingAnalysis,\* App state
    requests          \* how many fetches of getAIAnalysis are in flight

appVars == <<yearsData, allCalculations, taxCreditType, viewMode, aiAnalysis,
             isLoadingAnalysis, requests>>

vars == <<data, settlementMonth, entityType, includeLocalTax, taxCreditRate,
          industry, frame, result, taxIncome, taxBracket, taxOut, pc, appVars>>

-----------------------------------------------------------------------------
(* Exact rational arithmetic standing for the arithmetic of JS numbers.    *)

WonPerUnit == 10^4

NaN == <<0, 0>>

Infinity == <<1, 0>>

Undefined == <<>>

Zero == <<0, 1>>

One == <<1, 1>>

IsFinite(x) == Len(x) = 2 /\ x[2] > 0

Abs(n) == IF n < 0 THEN -n ELSE n

RECURSIVE GCD(_, _)
GCD(a, b) == IF b = 0 THEN a ELSE GCD(b, a % b)

\* n / d in lowest terms, d # 0
Rat(n, d) ==
    LET g == GCD(Abs(n), Abs(d))
        s == IF d < 0 THEN -1 ELSE 1
    IN  <<s * (n \div g), s * (d \div g)>>

Whole(n) == <<n, 1>>

\* x + y; a sum with undefined (or NaN) is NaN
Add(x, y) ==
    IF ~IsFinite(x) \/ ~IsFinite(y) THEN NaN
    ELSE LET g == GCD(x[2], y[2])
         IN  Rat(x[1] * (y[2] \div g) + y[1] * (x[2] \div g),
                 (x[2] \div g) * y[2])

Neg(x) == IF IsFinite(x) THEN <<-x[1], x[2]>> ELSE NaN

Sub(x, y) == Add(x, Neg(y))

\* x * y; a product with undefined (or NaN) is NaN
Mul(x, y) ==
    IF ~IsFinite(x) \/ ~IsFinite(y) THEN NaN
    ELSE LET g1 == GCD(Abs(x[1]), y[2])
             g2 == GCD(Abs(y[1]), x[2])
         IN  IF x[1] = 0 \/ y[1] = 0 THEN Zero
             ELSE <<(x[1] \div g1) * (y[1] \div g2), (x[2] \div g2) * (y[2] \div g1)>>

\* x <= y, where y may be Infinity: by the integer parts, and by the
\* fractional parts when those are equal; no comparison with NaN holds
Leq(x, y) ==
    IF ~IsFinite(x) THEN FALSE
    ELSE IF y = Infinity THEN TRUE
    ELSE IF ~IsFinite(y) THEN FALSE
    ELSE LET fx == x[1] \div x[2]
             fy == y[1] \div y[2]
         IN  IF fx # fy THEN fx < fy
             ELSE (x[1] % x[2]) * y[2] <= (y[1] % y[2]) * x[2]

Lt(x, y) == IsFinite(x) /\ IsFinite(y) /\ ~Leq(y, x)

\* Math.max(0, x), which is NaN for NaN
Max0(x) == IF ~IsFinite(x) THEN NaN ELSE IF Leq(x, Zero) THEN Zero ELSE x

\* variant: the fallback to 0 left out
OrZeroOmitted(v) == v

\* v || 0 : NaN and 0 are falsy
OrZero(v) == IF v = NaN \/ v = Zero THEN Zero ELSE v

-----------------------------------------------------------------------------
(* Number(string): StringToNumber restricted to the model's alphabet.      *)

DigitChars == {"0", "1", "2", "3", "4", "5", "6", "7", "8", "9"}

DigitOf(c) ==
    CASE c = "0" -> 0 [] c = "1" -> 1 [] c = "2" -> 2 [] c = "3" -> 3
      [] c = "4" -> 4 [] c = "5" -> 5 [] c = "6" -> 6 [] c = "7" -> 7
      [] c = "8" -> 8 [] c = "9" -> 9

AllDigits(s) == \A i \in 1..Len(s) : s[i] \in DigitChars

RECURSIVE TrimStart(_)
TrimStart(s) == IF s # <<>> /\ Head(s) = " " THEN TrimStart(Tail(s)) ELSE s

RECURSIVE TrimEnd(_)
TrimEnd(s) ==
    IF s # <<>> /\ s[Len(s)] = " " THEN TrimEnd(SubSeq(s, 1, Len(s) - 1)) ELSE s

Trim(s) == TrimEnd(TrimStart(s))

\* the value of a run of decimal digits
RECURSIVE DigitsValue(_)
DigitsValue(ds) ==
    IF ds = <<>> THEN 0
    ELSE 10 * DigitsValue(SubSeq(ds, 1, Len(ds) - 1)) + DigitOf(ds[Len(ds)])

\* Number(s) as an amount: the value of the literal in won, counted in
\* units of 10^4 won; NaN when s is not a numeric literal
Number(s) ==
    LET t == Trim(s)
        signed == t # <<>> /\ Head(t) \in {"+", "-"}
        body == IF signed THEN Tail(t) ELSE t
        dots == {i \in 1..Len(body) : body[i] = "."}
        p == IF dots = {} THEN Len(body) + 1
             ELSE CHOOSE i \in dots : \A j \in dots : i <= j
        intPart == SubSeq(body, 1, p - 1)
        fracPart == SubSeq(body, p + 1, Len(body))
        wellFormed == /\ AllDigits(intPart)
                      /\ AllDigits(fracPart)
                      /\ Len(intPart) + Len(fracPart) > 0
        magnitude == Add(Rat(DigitsValue(intPart), WonPerUnit),
                         Mul(Rat(DigitsValue(fracPart), 10^Len(fracPart)),
                             Rat(1, WonPerUnit)))
    IN  IF t = <<>> THEN Zero
        ELSE IF ~wellFormed THEN NaN
        ELSE IF signed /\ Head(t) = "-" THEN Neg(magnitude)
        ELSE magnitude

-----------------------------------------------------------------------------
(* The static tables (constants module).                                   *)

NULL == "null"

\* an amount of k * 10^4 won
Man(k) == Whole(k)

Pct(p) == Rat(p, 100)

INDIVIDUAL_TAX_BRACKETS ==
    << [limit |-> Man(1400),   rate |-> Pct(6),  deduction |-> Man(0)],
       [limit |-> Man(5000),   rate |-> Pct(15), deduction |-> Man(126)],
       [limit |-> Man(8800),   rate |-> Pct(24), deduction |-> Man(576)],
       [limit |-> Man(15000),  rate |-> Pct(35), deduction |-> Man(1544)],
       [limit |-> Man(30000),  rate |-> Pct(38), deduction |-> Man(1994)],
       [limit |-> Man(50000),  rate |-> Pct(40), deduction |-> Man(2594)],
       [limit |-> Man(100000), rate |-> Pct(42), deduction |-> Man(3594)],
       [limit |-> Infinity,    rate |-> Pct(45), deduction |-> Man(6594)] >>

CORPORATE_TAX_BRACKETS ==
    << [limit |-> Man(20000),    rate |-> Pct(9),  deduction |-> Man(0)],
       [limit |-> Man(2000000),  rate |-> Pct(19), deduction |-> Man(2000)],
       [limit |-> Man(30000000), rate |-> Pct(21), deduction |-> Man(42000)],
       [limit |-> Infinity,      rate |-> Pct(24), deduction |-> Man(942000)] >>

SETTLEMENT_MONTHS == <<8, 9, 10, 11, 12>>

BASIC_DEDUCTION == Man(150)

\* the keys stand for the six industries of the table, in its order:
\* wholesale and retail, manufacturing, food and lodging, services,
\* construction, real estate
IndustryKeys ==
    {"wholesale_retail", "manufacturing", "food_lodging", "services",
     "construction", "real_estate"}

INDUSTRY_PROFIT_MARGINS ==
    [k \in IndustryKeys |->
        CASE k = "wholesale_retail" ->
                 [individual |-> Rat(1170, 10000), corporate |-> Rat(45, 1000)]
          [] k = "manufacturing" ->
                 [individual |-> Rat(431, 10000), corporate |-> Rat(23, 1000)]
          [] k = "food_lodging" ->
                 [individual |-> Rat(889, 10000), corporate |-> Rat(30, 1000)]
          [] k = "services" ->
                 [individual |-> Rat(851, 10000), corporate |-> Rat(16, 1000)]
          [] k = "construction" ->
                 [individual |-> Rat(1219, 10000), corporate |-> Rat(43, 1000)]
          [] k = "real_estate" ->
                 [individual |-> Rat(1058, 10000), corporate |-> Rat(20, 1000)]]

\* names every object inherits from Object.prototype: indexing the table
\* with one of them yields a function object, which is truthy and has no
\* own property named after an entity type
InheritedKeys == {"toString", "constructor"}

STARTUP_CREDIT_RATES == {Rat(5, 10), Rat(10, 10)}

SPECIAL_CREDIT_RATES == {Rat(5, 100), Rat(1, 10), Rat(15, 100), Rat(2, 10), Rat(3, 10)}

initialYearData ==
    [revenue |-> <<>>, cogs |-> <<>>, sga |-> <<>>, nonOpIncome |-> <<>>,
     nonOpExpense |-> <<>>, additionalExpenses |-> <<>>]

-----------------------------------------------------------------------------
(* calculateAllMetrics, statement by statement.                            *)

\* Number(data.field) || 0
ParseField(s) == OrZero(Number(s))

\* variant: the quotient without its guard, 12 / 0 being Infinity
annualizationFactorUnguarded(sm) == IF sm = 0 THEN Infinity ELSE Rat(12, sm)

\* variant: the quotient inverted
annualizationFactorInverted(sm) == IF sm > 0 THEN Rat(sm, 12) ELSE Zero

annualizationFactor(sm) == IF sm > 0 THEN Rat(12, sm) ELSE Zero

\* variant: the difference reversed
grossProfitReversed(numRevenue, numCogs) == Sub(numCogs, numRevenue)

grossProfit(numRevenue, numCogs) == Sub(numRevenue, numCogs)

operatingIncome(gp, numSga) == Sub(gp, numSga)

\* variant: the non-operating expense added
currentNetIncomeBeforeAdjustmentAdding(oi, numNonOpIncome, numNonOpExpense) ==
    Add(Add(oi, numNonOpIncome), numNonOpExpense)

currentNetIncomeBeforeAdjustment(oi, numNonOpIncome, numNonOpExpense) ==
    Sub(Add(oi, numNonOpIncome), numNonOpExpense)

currentNetIncomeAfterAdjustment(before, numAdditionalExpenses) ==
    Sub(before, numAdditionalExpenses)

\* the line items and subtotals multiplied by the annualization factor
Annualized(x, factor) == Mul(x, factor)

annualizedNetIncomeBeforeAdjustment(aOperatingIncome, aNonOpIncome, aNonOpExpense) ==
    Sub(Add(aOperatingIncome, aNonOpIncome), aNonOpExpense)

\* variant: the additional expenses added to the annualized net income
annualizedNetIncomeAfterAdjustmentAdding(aBefore, numAdditionalExpenses) ==
    Add(aBefore, numAdditionalExpenses)

\* variant: the additional expenses taken at twelve times their amount
annualizedNetIncomeAfterAdjustmentScaled(aBefore, numAdditionalExpenses) ==
    Sub(aBefore, Mul(numAdditionalExpenses, Whole(12)))

annualizedNetIncomeAfterAdjustment(aBefore, numAdditionalExpenses) ==
    Sub(aBefore, numAdditionalExpenses)

\* variant: the basic deduction granted to every entity type
deductionForAll(et) == BASIC_DEDUCTION

deduction(et) == IF et = "individual" THEN BASIC_DEDUCTION ELSE Zero

BracketsOf(et) ==
    IF et = "individual" THEN INDIVIDUAL_TAX_BRACKETS ELSE CORPORATE_TAX_BRACKETS

\* variant: the loop with a strict comparison, income < bracket.limit
RECURSIVE ScanBracketsStrict(_, _, _, _)
ScanBracketsStrict(brackets, income, i, applicable) ==
    IF i > Len(brackets) THEN applicable
    ELSE IF Lt(income, brackets[i].limit) \/ brackets[i].limit = Infinity
         THEN brackets[i]
    ELSE ScanBracketsStrict(brackets, income, i + 1, applicable)

\* the for-loop of calculateTax from bracket i on: the first bracket whose
\* limit is not below the income ends the loop; the initial value stays
\* when the loop ends without a match
RECURSIVE ScanBrackets(_, _, _, _)
ScanBrackets(brackets, income, i, applicable) ==
    IF i > Len(brackets) THEN applicable
    ELSE IF Leq(income, brackets[i].limit) THEN brackets[i]
    ELSE ScanBrackets(brackets, income, i + 1, applicable)

\* variant: the loop without its break, so that the last match stays
RECURSIVE ScanWithoutBreak(_, _, _, _)
ScanWithoutBreak(brackets, income, i, applicable) ==
    IF i > Len(brackets) THEN applicable
    ELSE ScanWithoutBreak(brackets, income, i + 1,
                          IF Leq(income, brackets[i].limit) THEN brackets[i]
                          ELSE applicable)

applicableBracketLastMatch(brackets, income) ==
    ScanWithoutBreak(brackets, income, 1, brackets[Len(brackets)])

applicableBracket(brackets, income) ==
    ScanBrackets(brackets, income, 1, brackets[Len(brackets)])

\* variant: the bracket's deduction not subtracted
calculateTaxWithoutDeduction(income, et) ==
    IF Leq(income, Zero) THEN Zero
    ELSE Mul(income, applicableBracket(BracketsOf(et), income).rate)

\* variant: the bracket's deduction subtracted twice
calculateTaxDeductionTwice(income, et) ==
    IF Leq(income, Zero) THEN Zero
    ELSE LET b == applicableBracket(BracketsOf(et), income)
         IN  Sub(Sub(Mul(income, b.rate), b.deduction), b.deduction)

calculateTax(income, et) ==
    IF Leq(income, Zero) THEN Zero
    ELSE LET b == applicableBracket(BracketsOf(et), income)
         IN  Sub(Mul(income, b.rate), b.deduction)

\* variant: no clamp at zero
taxableIncomeUnclamped(annualizedNetIncome, ded) == Sub(annualizedNetIncome, ded)

taxableIncome(annualizedNetIncome, ded) == Max0(Sub(annualizedNetIncome, ded))

\* variant: the part of the tax that remains instead of the credit
taxCreditAmountAfterRemainder(baseTaxAfter, cr) == Mul(baseTaxAfter, Sub(One, cr))

taxCreditAmountAfter(baseTaxAfter, cr) == Mul(baseTaxAfter, cr)

\* variant: the credit not subtracted
taxAfterCreditIgnoringCredit(baseTaxAfter, creditAmount) == baseTaxAfter

taxAfterCredit(baseTaxAfter, creditAmount) == Sub(baseTaxAfter, creditAmount)

\* variant: the surcharge applied whatever the flag
localTaxMultiplierAlways(lt) == Rat(11, 10)

localTaxMultiplier(lt) == IF lt THEN Rat(11, 10) ELSE One

finalTaxBefore(baseTaxBefore, cr, lt) ==
    Mul(Mul(baseTaxBefore, Sub(One, cr)), localTaxMultiplier(lt))

\* variant: the local tax left out
finalTaxAfterNoLocalTax(afterCredit, lt) == afterCredit

finalTaxAfter(afterCredit, lt) == Mul(afterCredit, localTaxMultiplier(lt))

taxSavings(before, after) == Sub(before, after)

\* variant: the margin of the corporate column for every entity type
profitMarginOfCorporate(ind, et) ==
    IF ind \in IndustryKeys THEN INDUSTRY_PROFIT_MARGINS[ind].corporate
    ELSE IF ind \in InheritedKeys THEN Undefined
    ELSE Zero

\* INDUSTRY_PROFIT_MARGINS[industry], then [entityType] when it is truthy
profitMargin(ind, et) ==
    IF ind \in IndustryKeys THEN INDUSTRY_PROFIT_MARGINS[ind][et]
    ELSE IF ind \in InheritedKeys THEN Undefined
    ELSE Zero

safeProfit(annualizedRevenue, margin) == Mul(annualizedRevenue, margin)

EmptyRecord == <<>>

\* lines 20-25: the six parsed inputs
ParsedInputs(yd) ==
    [numRevenue |-> ParseField(yd.revenue),
     numCogs |-> ParseField(yd.cogs),
     numSga |-> ParseField(yd.sga),
     numNonOpIncome |-> ParseField(yd.nonOpIncome),
     numNonOpExpense |-> ParseField(yd.nonOpExpense),
     numAdditionalExpenses |-> ParseField(yd.additionalExpenses)]

\* lines 27-32: the locals so far, with the factor and the period subtotals
PeriodSubtotals(e, sm) ==
    LET gp == grossProfit(e.numRevenue, e.numCogs)
        oi == operatingIncome(gp, e.numSga)
        nb == currentNetIncomeBeforeAdjustment(oi, e.numNonOpIncome,
                                               e.numNonOpExpense)
    IN  e @@ [annualizationFactor |-> annualizationFactor(sm),
              grossProfit |-> gp,
              operatingIncome |-> oi,
              currentNetIncomeBeforeAdjustment |-> nb,
              currentNetIncomeAfterAdjustment |->
                  currentNetIncomeAfterAdjustment(nb, e.numAdditionalExpenses)]

\* lines 34-42: with the annualized lines, subtotals and net incomes
AnnualizedFigures(e) ==
    LET f == e.annualizationFactor
        aNoi == Annualized(e.numNonOpIncome, f)
        aNoe == Annualized(e.numNonOpExpense, f)
        aOi == Annualized(e.operatingIncome, f)
        aNb == annualizedNetIncomeBeforeAdjustment(aOi, aNoi, aNoe)
    IN  e @@ [annualizedRevenue |-> Annualized(e.numRevenue, f),
              annualizedCogs |-> Annualized(e.numCogs, f),
              annualizedSga |-> Annualized(e.numSga, f),
              annualizedNonOpIncome |-> aNoi,
              annualizedNonOpExpense |-> aNoe,
              annualizedGrossProfit |-> Annualized(e.grossProfit, f),
              annualizedOperatingIncome |-> aOi,
              annualizedNetIncomeBeforeAdjustment |-> aNb,
              annualizedNetIncomeAfterAdjustment |->
                  annualizedNetIncomeAfterAdjustment(aNb, e.numAdditionalExpenses)]

\* lines 44-64: with the deduction, the taxable incomes and the base taxes
BaseTaxes(e, et) ==
    LET ded == deduction(et)
        tiB == taxableIncome(e.annualizedNetIncomeBeforeAdjustment, ded)
        tiA == taxableIncome(e.annualizedNetIncomeAfterAdjustment, ded)
    IN  e @@ [deduction |-> ded,
              taxableIncomeBefore |-> tiB,
              baseTaxBefore |-> calculateTax(tiB, et),
              taxableIncomeAfter |-> tiA,
              baseTaxAfter |-> calculateTax(tiA, et)]

\* lines 66-76: with the credit, the final taxes, the savings and the
\* safe profit
CreditsAndProfit(e, et, lt, cr, ind) ==
    LET tca == taxCreditAmountAfter(e.baseTaxAfter, cr)
        tac == taxAfterCredit(e.baseTaxAfter, tca)
        ftB == finalTaxBefore(e.baseTaxBefore, cr, lt)
        ftA == finalTaxAfter(tac, lt)
        pm == profitMargin(ind, et)
    IN  e @@ [taxCreditAmountAfter |-> tca,
              taxAfterCredit |-> tac,
              finalTaxBefore |-> ftB,
              finalTaxAfter |-> ftA,
              taxSavings |-> taxSavings(ftB, ftA),
              profitMargin |-> pm,
              safeProfit |-> safeProfit(e.annualizedRevenue, pm)]

\* every local of one call with the entity type set
Locals(yd, sm, et, lt, cr, ind) ==
    CreditsAndProfit(
        BaseTaxes(AnnualizedFigures(PeriodSubtotals(ParsedInputs(yd), sm)), et),
        et, lt, cr, ind)

\* the factor of the revisions that take their inputs in millions of won
MILLION == 1000000

\* the six parsed inputs of those revisions: (Number(data.field) || 0) * MILLION
ParsedInputsMillion(yd) ==
    [numRevenue |-> Mul(ParseField(yd.revenue), Whole(MILLION)),
     numCogs |-> Mul(ParseField(yd.cogs), Whole(MILLION)),
     numSga |-> Mul(ParseField(yd.sga), Whole(MILLION)),
     numNonOpIncome |-> Mul(ParseField(yd.nonOpIncome), Whole(MILLION)),
     numNonOpExpense |-> Mul(ParseField(yd.nonOpExpense), Whole(MILLION)),
     numAdditionalExpenses |->
         Mul(ParseField(yd.additionalExpenses), Whole(MILLION))]

\* every local of one call of those revisions, whose body is the body of
\* src/App.tsx after the parsed inputs
LocalsMillion(yd, sm, et, lt, cr, ind) ==
    CreditsAndProfit(
        BaseTaxes(AnnualizedFigures(PeriodSubtotals(ParsedInputsMillion(yd), sm)),
                  et),
        et, lt, cr, ind)

FrameOfMillion(yd, sm, et, lt, cr, ind) ==
    IF et = NULL THEN EmptyRecord ELSE LocalsMillion(yd, sm, et, lt, cr, ind)

\* the fields of the returned record
ReturnedFields ==
    {"numRevenue", "numCogs", "grossProfit", "numSga", "operatingIncome",
     "numNonOpIncome", "numNonOpExpense", "numAdditionalExpenses",
     "currentNetIncomeBeforeAdjustment", "currentNetIncomeAfterAdjustment",
     "annualizedRevenue", "annualizedCogs", "annualizedGrossProfit",
     "annualizedSga", "annualizedOperatingIncome", "annualizedNonOpIncome",
     "annualizedNonOpExpense", "annualizedNetIncomeBeforeAdjustment",
     "annualizedNetIncomeAfterAdjustment", "baseTaxAfter",
     "taxCreditAmountAfter", "taxAfterCredit", "finalTaxBefore",
     "finalTaxAfter", "taxSavings", "safeProfit", "profitMargin"}

\* variant: a second short-circuit, on a settlement month of 0
FrameOfMonthGuard(yd, sm, et, lt, cr, ind) ==
    IF et = NULL \/ sm = 0 THEN EmptyRecord ELSE Locals(yd, sm, et, lt, cr, ind)

\* the locals of a call: none when the entity type is unset
FrameOf(yd, sm, et, lt, cr, ind) ==
    IF et = NULL THEN EmptyRecord ELSE Locals(yd, sm, et, lt, cr, ind)

ReturnOf(fr) ==
    IF DOMAIN fr = {} THEN EmptyRecord ELSE [k \in ReturnedFields |-> fr[k]]

calculateAllMetrics(yd, sm, et, lt, cr, ind) ==
    ReturnOf(FrameOf(yd, sm, et, lt, cr, ind))

-----------------------------------------------------------------------------
(* Calls of calculateAllMetrics and of calculateTax on bounded arguments.  *)

\* how many of the sample strings are used
NumSamples == 4

MonthsPerYear == 12

\* "", "a", "900000000", "-1500000", "1.2.3"
SampleStrings ==
    << <<>>,
       <<"a">>,
       <<"9", "0", "0", "0", "0", "0", "0", "0", "0">>,
       <<"-", "1", "5", "0", "0", "0", "0", "0">>,
       <<"1", ".", "2", ".", "3">> >>

SampleSet ==
    {SampleStrings[i] :
        i \in 1..(IF NumSamples < Len(SampleStrings) THEN NumSamples
                  ELSE Len(SampleStrings))}

\* revenue 100,000,000, cost of goods 40,000,000, selling and administrative
\* 20,000,000, non-operating income 1,000,000 and expense 500,000,
\* additional expenses 1,000,000
ScenarioYearData ==
    [revenue |-> <<"1", "0", "0", "0", "0", "0", "0", "0", "0">>,
     cogs |-> <<"4", "0", "0", "0", "0", "0", "0", "0">>,
     sga |-> <<"2", "0", "0", "0", "0", "0", "0", "0">>,
     nonOpIncome |-> <<"1", "0", "0", "0", "0", "0", "0">>,
     nonOpExpense |-> <<"5", "0", "0", "0", "0", "0">>,
     additionalExpenses |-> <<"1", "0", "0", "0", "0", "0", "0">>]

\* a record with a different kind of string in every field: " 2500000 ",
\* "1.2.", "-1500000", "a", "" and "+30000"
MixedYearData ==
    [revenue |-> <<" ", "2", "5", "0", "0", "0", "0", "0", " ">>,
     cogs |-> <<"1", ".", "2", ".">>,
     sga |-> <<"-", "1", "5", "0", "0", "0", "0", "0">>,
     nonOpIncome |-> <<"a">>,
     nonOpExpense |-> <<>>,
     additionalExpenses |-> <<"+", "3", "0", "0", "0", "0">>]

\* a revenue of 250,000.5 between blanks, and nothing else
FractionYearData ==
    [initialYearData EXCEPT
        !.revenue = <<" ", "2", "5", "0", "0", "0", "0", ".", "5", " ">>]

YearDataFields == DOMAIN initialYearData

\* three base records with every record that differs from one of them in
\* one field, which holds a sample string; and the record with a fraction
YearDataSamples ==
    {FractionYearData}
    \cup UNION {{base} \cup {[base EXCEPT ![k] = str] :
                                 k \in YearDataFields, str \in SampleSet} :
                base \in {initialYearData, ScenarioYearData, MixedYearData}}

\* the amounts the input form suggests, in millions of won: "100", "40",
\* "20", "1", "0.5" and "1"
PlaceholderYearData ==
    [revenue |-> <<"1", "0", "0">>,
     cogs |-> <<"4", "0">>,
     sga |-> <<"2", "0">>,
     nonOpIncome |-> <<"1">>,
     nonOpExpense |-> <<"0", ".", "5">>,
     additionalExpenses |-> <<"1">>]

\* the blank record, the suggested one, and the suggested one with one
\* field blank or not numeric
MillionYearDataSamples ==
    {initialYearData, PlaceholderYearData}
    \cup {[PlaceholderYearData EXCEPT ![k] = str] :
              k \in YearDataFields, str \in {<<>>, <<"a">>}}

SettlementMonthValues == 0..MonthsPerYear

CreditRateSamples == {Zero, Rat(3, 10), One}

IndustrySamples == {"wholesale_retail", "unlisted", "toString"}

FiniteLimits ==
    {INDIVIDUAL_TAX_BRACKETS[i].limit : i \in 1..(Len(INDIVIDUAL_TAX_BRACKETS) - 1)}
    \cup {CORPORATE_TAX_BRACKETS[i].limit : i \in 1..(Len(CORPORATE_TAX_BRACKETS) - 1)}

OneWon == Rat(1, WonPerUnit)

\* the limits up to 88,000,000, whose tax one won above is within the
\* integers of the model checker
SmallLimits == {l \in FiniteLimits : Leq(l, INDIVIDUAL_TAX_BRACKETS[3].limit)}

\* zero, a loss, every finite limit with its two neighbours one unit away,
\* the small limits plus one won, and an income above every finite limit
IncomeSamples ==
    {Zero, Neg(One), Rat(14000001, WonPerUnit), Man(40000000)}
    \cup {Add(l, Whole(d)) : l \in FiniteLimits, d \in {-1, 0, 1}}
    \cup {Add(l, OneWon) : l \in SmallLimits}

-----------------------------------------------------------------------------
(* The App component: its state and what its handlers compute.             *)

YEARS == {2023, 2024, 2025}

\* settlementMonth before a month is chosen (null)
UnsetMonth == -1

\* settlementMonth || 0
MonthOrZero(sm) == IF sm = UnsetMonth THEN 0 ELSE sm

\* how many in-flight fetches are followed
MaxRequests == 2

\* what the user types into a field: nothing, or 50,000,000
FormStrings == {<<>>, <<"5", "0", "0", "0", "0", "0", "0", "0">>}

\* the fields the user types into: the revenue of every year, and the
\* additional expenses of the last one
FormFields == {"revenue", "additionalExpenses"}

FormSlots == (YEARS \X {"revenue"}) \cup {<<2025, "additionalExpenses">>}

\* the month and the industries the user picks among those offered
MonthChoices == {SETTLEMENT_MONTHS[Len(SETTLEMENT_MONTHS)]}

IndustryChoices == {"wholesale_retail", "manufacturing"}

TaxCreditTypes == {"none", "startup", "special"}

\* the records one year of the form can hold
FormYearData ==
    {[f \in YearDataFields |-> IF f \in FormFields THEN v[f] ELSE <<>>] :
        v \in [FormFields -> FormStrings]}

\* the argument tuples allCalculations can pass to calculateAllMetrics
FormArguments ==
    FormYearData
    \X ({0} \cup MonthChoices)
    \X {NULL, "individual", "corporate"}
    \X BOOLEAN
    \X ({Zero} \cup STARTUP_CREDIT_RATES \cup SPECIAL_CREDIT_RATES)
    \X IndustryChoices

\* calculateAllMetrics tabulated over those tuples
MetricsOfForm ==
    [a \in FormArguments |->
        calculateAllMetrics(a[1], a[2], a[3], a[4], a[5], a[6])] @@ <<>>

\* the body of the useMemo callback: one call for each year
ComputeAll(yds, sm, et, lt, cr, ind) ==
    [y \in YEARS |-> MetricsOfForm[<<yds[y], MonthOrZero(sm), et, lt, cr, ind>>]]

\* variant: the credit rate missing from the dependency list
MemoDepsWithoutRate(yds, sm, et, lt, cr, ind) == <<yds, sm, et, lt, ind>>

\* the dependency list of the useMemo
MemoDeps(yds, sm, et, lt, cr, ind) == <<yds, sm, et, lt, cr, ind>>

\* the render after a handler: the memo is recomputed when a dependency
\* changed, and is the value of the previous render otherwise
Rerender ==
    allCalculations' =
        IF MemoDeps(yearsData', settlementMonth', entityType', includeLocalTax',
                    taxCreditRate', industry')
           = MemoDeps(yearsData, settlementMonth, entityType, includeLocalTax,
                      taxCreditRate, industry)
        THEN allCalculations
        ELSE ComputeAll(yearsData', settlementMonth', entityType',
                        includeLocalTax', taxCreditRate', industry')

\* variant: the other years not carried over
YearsDataAfterChangeWithoutSpread(prev, year, field, value) ==
    [y \in YEARS |-> IF y = year THEN [prev[y] EXCEPT ![field] = value]
                     ELSE initialYearData]

\* the updater of handleYearDataChange
YearsDataAfterChange(prev, year, field, value) ==
    [prev EXCEPT ![year] = [prev[year] EXCEPT ![field] = value]]

\* variant: the rate kept when the credit type changes
RateAfterTypeChangeKept(rate) == rate

\* handleTaxCreditTypeChange: setTaxCreditRate(0)
RateAfterTypeChange(rate) == Zero

hasInputs(yds) == \E y \in YEARS : \E f \in YearDataFields : yds[y][f] # <<>>

\* variant: the two checks of the rate left out
ViewResultAllowedWithoutRate(et, sm, type, rate) ==
    /\ et # NULL
    /\ sm # UnsetMonth /\ sm # 0
    /\ type # NULL

\* handleViewResult passes all five of its early returns
ViewResultAllowed(et, sm, type, rate) ==
    /\ et # NULL
    /\ sm # UnsetMonth /\ sm # 0
    /\ type # NULL
    /\ ~(type = "startup" /\ rate = Zero)
    /\ ~(type = "special" /\ rate = Zero)

\* how a fetch of getAIAnalysis ends: a body with candidates, a body
\* without, a status that is not OK, or an exception
Outcomes == {"candidates", "unexpected", "notOk", "thrown"}

\* the text setAiAnalysis receives
AnalysisOf(outcome) ==
    CASE outcome = "candidates" -> "text"
      [] outcome = "unexpected" -> "unprocessable"
      [] outcome = "notOk" -> "failed"
      [] outcome = "thrown" -> "failed"

\* variant: the flag cleared at the end of the try block, not in finally
LoadingAfterSettleInTry(loading, outcome) ==
    IF outcome \in {"notOk", "thrown"} THEN loading ELSE FALSE

\* finally: setIsLoadingAnalysis(false)
LoadingAfterSettle(loading, outcome) == FALSE

\* variant: a failed analysis sends the user back to the form
ViewModeAfterSettleBack(vm, outcome) ==
    IF outcome \in {"notOk", "thrown"} THEN "input" ELSE vm

\* getAIAnalysis assigns nothing to viewMode
ViewModeAfterSettle(vm, outcome) == vm

\* the cells of App as useState creates them
AppDefaults ==
    /\ yearsData = [y \in YEARS |-> initialYearData]
    /\ allCalculations = [y \in YEARS |-> EmptyRecord]
    /\ taxCreditType = NULL
    /\ viewMode = "input"
    /\ aiAnalysis = ""
    /\ isLoadingAnalysis = FALSE
    /\ requests = 0

Init ==
    /\ AppDefaults
    /\ data = initialYearData
    /\ settlementMonth \in SettlementMonthValues
    /\ entityType \in {"individual", "corporate", NULL}
    /\ includeLocalTax = FALSE
    /\ taxCreditRate = Zero
    /\ industry = "wholesale_retail"
    /\ frame = EmptyRecord
    /\ result = EmptyRecord
    /\ taxIncome = Zero
    /\ taxBracket = EmptyRecord
    /\ taxOut = Zero
    /\ pc = "idle"

\* one call of calculateAllMetrics: its arguments, the locals of its body
\* and the record it returns
Calculate ==
    /\ pc = "idle"
    /\ data' \in YearDataSamples
    /\ includeLocalTax' \in BOOLEAN
    /\ taxCreditRate' \in CreditRateSamples
    /\ industry' \in IndustrySamples
    /\ frame' = FrameOf(data', settlementMonth, entityType, includeLocalTax',
                        taxCreditRate', industry')
    /\ result' = ReturnOf(frame')
    /\ pc' = "metrics"
    /\ UNCHANGED <<settlementMonth, entityType, taxIncome, taxBracket, taxOut,
                   appVars>>

\* one call of the inner calculateTax of a call with the entity type set;
\* the early return for an income <= 0 leaves no applicable bracket
CalculateTaxCall ==
    /\ pc = "idle"
    /\ entityType # NULL
    /\ taxIncome' \in IncomeSamples
    /\ taxBracket' = IF Leq(taxIncome', Zero) THEN EmptyRecord
                     ELSE applicableBracket(BracketsOf(entityType), taxIncome')
    /\ taxOut' = calculateTax(taxIncome', entityType)
    /\ pc' = "tax"
    /\ UNCHANGED <<data, settlementMonth, entityType, includeLocalTax,
                   taxCreditRate, industry, frame, result, appVars>>

Next == Calculate \/ CalculateTaxCall

Spec == Init /\ [][Next]_vars

\* one call of calculateAllMetrics as the revisions with MILLION have it
CalculateMillion ==
    /\ pc = "idle"
    /\ data' \in MillionYearDataSamples
    /\ includeLocalTax' \in BOOLEAN
    /\ taxCreditRate' \in CreditRateSamples
    /\ industry' \in IndustrySamples
    /\ frame' = FrameOfMillion(data', settlementMonth, entityType,
                               includeLocalTax', taxCreditRate', industry')
    /\ result' = ReturnOf(frame')
    /\ pc' = "metrics"
    /\ UNCHANGED <<settlementMonth, entityType, taxIncome, taxBracket, taxOut,
                   appVars>>

\* a call of any revision of the function the repository holds
NextRevisions == Calculate \/ CalculateMillion \/ CalculateTaxCall

SpecRevisions == Init /\ [][NextRevisions]_vars

-----------------------------------------------------------------------------
(* The App component: its event handlers.                                  *)

\* the variables of single calls, which App does not use
callVars == <<data, frame, result, taxIncome, taxBracket, taxOut>>

InitApp ==
    /\ AppDefaults
    /\ entityType = NULL
    /\ includeLocalTax = FALSE
    /\ settlementMonth = UnsetMonth
    /\ industry = "wholesale_retail"
    /\ taxCreditRate = Zero
    /\ data = initialYearData
    /\ frame = EmptyRecord
    /\ result = EmptyRecord
    /\ taxIncome = Zero
    /\ taxBracket = EmptyRecord
    /\ taxOut = Zero
    /\ pc = "idle"

\* the form is on screen and no handler is running
FormShown == pc = "idle" /\ viewMode = "input"

\* the radio buttons of the entity type
SetEntityType ==
    /\ FormShown
    /\ entityType' \in {"individual", "corporate"}
    /\ UNCHANGED <<settlementMonth, includeLocalTax, taxCreditRate, industry,
                   yearsData, taxCreditType, viewMode, aiAnalysis,
                   isLoadingAnalysis, requests, pc, callVars>>
    /\ Rerender

\* the select of the industry
SetIndustry ==
    /\ FormShown
    /\ industry' \in IndustryChoices
    /\ UNCHANGED <<settlementMonth, entityType, includeLocalTax, taxCreditRate,
                   yearsData, taxCreditType, viewMode, aiAnalysis,
                   isLoadingAnalysis, requests, pc, callVars>>
    /\ Rerender

\* the radio buttons of the settlement month
SetSettlementMonth ==
    /\ FormShown
    /\ settlementMonth' \in MonthChoices
    /\ UNCHANGED <<entityType, includeLocalTax, taxCreditRate, industry,
                   yearsData, taxCreditType, viewMode, aiAnalysis,
                   isLoadingAnalysis, requests, pc, callVars>>
    /\ Rerender

\* the radio buttons of the credit type
HandleTaxCreditTypeChange ==
    /\ FormShown
    /\ taxCreditType' \in TaxCreditTypes
    /\ taxCreditRate' = RateAfterTypeChange(taxCreditRate)
    /\ UNCHANGED <<settlementMonth, entityType, includeLocalTax, industry,
                   yearsData, viewMode, aiAnalysis, isLoadingAnalysis,
                   requests, pc, callVars>>
    /\ Rerender

\* the radio buttons of the rate, which are rendered for the credit type
\* that is selected
SetTaxCreditRate ==
    /\ FormShown
    /\ \/ taxCreditType = "startup" /\ taxCreditRate' \in STARTUP_CREDIT_RATES
       \/ taxCreditType = "special" /\ taxCreditRate' \in SPECIAL_CREDIT_RATES
    /\ UNCHANGED <<settlementMonth, entityType, includeLocalTax, industry,
                   yearsData, taxCreditType, viewMode, aiAnalysis,
                   isLoadingAnalysis, requests, pc, callVars>>
    /\ Rerender

\* the checkbox of the local tax
SetIncludeLocalTax ==
    /\ FormShown
    /\ includeLocalTax' \in BOOLEAN
    /\ UNCHANGED <<settlementMonth, entityType, taxCreditRate, industry,
                   yearsData, taxCreditType, viewMode, aiAnalysis,
                   isLoadingAnalysis, requests, pc, callVars>>
    /\ Rerender

\* an input of one of the three year groups
HandleYearDataChange ==
    /\ FormShown
    /\ \E slot \in FormSlots, value \in FormStrings :
          yearsData' = YearsDataAfterChange(yearsData, slot[1], slot[2], value)
    /\ UNCHANGED <<settlementMonth, entityType, includeLocalTax, taxCreditRate,
                   industry, taxCreditType, viewMode, aiAnalysis,
                   isLoadingAnalysis, requests, pc, callVars>>
    /\ Rerender

\* the button of the form: five early returns, then the result view, and
\* the analysis when a field holds text
HandleViewResult ==
    /\ FormShown
    /\ requests < MaxRequests
    /\ IF ViewResultAllowed(entityType, settlementMonth, taxCreditType,
                            taxCreditRate)
       THEN /\ viewMode' = "result"
            /\ pc' = IF hasInputs(yearsData) THEN "analysis" ELSE "idle"
       ELSE UNCHANGED <<viewMode, pc>>
    /\ UNCHANGED <<settlementMonth, entityType, includeLocalTax, taxCreditRate,
                   industry, yearsData, taxCreditType, aiAnalysis,
                   isLoadingAnalysis, requests, callVars>>
    /\ Rerender

\* getAIAnalysis up to its fetch, in the same event as handleViewResult
GetAIAnalysis ==
    /\ pc = "analysis"
    /\ isLoadingAnalysis' = TRUE
    /\ requests' = requests + 1
    /\ pc' = "idle"
    /\ UNCHANGED <<settlementMonth, entityType, includeLocalTax, taxCreditRate,
                   industry, yearsData, taxCreditType, viewMode, aiAnalysis,
                   callVars>>
    /\ Rerender

\* a fetch settles and getAIAnalysis runs to its end
SettleAnalysis ==
    /\ pc = "idle"
    /\ requests > 0
    /\ \E outcome \in Outcomes :
          /\ aiAnalysis' = AnalysisOf(outcome)
          /\ isLoadingAnalysis' = LoadingAfterSettle(isLoadingAnalysis, outcome)
          /\ viewMode' = ViewModeAfterSettle(viewMode, outcome)
    /\ requests' = requests - 1
    /\ UNCHANGED <<settlementMonth, entityType, includeLocalTax, taxCreditRate,
                   industry, yearsData, taxCreditType, pc, callVars>>
    /\ Rerender

\* the button of the result view that returns to the form
ReturnToInput ==
    /\ pc = "idle"
    /\ viewMode = "result"
    /\ viewMode' = "input"
    /\ UNCHANGED <<settlementMonth, entityType, includeLocalTax, taxCreditRate,
                   industry, yearsData, taxCreditType, aiAnalysis,
                   isLoadingAnalysis, requests, pc, callVars>>
    /\ Rerender

NextApp ==
    \/ SetEntityType
    \/ SetIndustry
    \/ SetSettlementMonth
    \/ HandleTaxCreditTypeChange
    \/ SetTaxCreditRate
    \/ SetIncludeLocalTax
    \/ HandleYearDataChange
    \/ HandleViewResult
    \/ GetAIAnalysis
    \/ SettleAnalysis
    \/ ReturnToInput

SpecApp == InitApp /\ [][NextApp]_vars

\* calculateAllMetrics has returned for a set entity type
Computed == pc = "metrics" /\ entityType # NULL

-----------------------------------------------------------------------------
(* Properties of calculateTax and of the subtotals.                        *)

\* the bracket the scan rule names: the first one whose limit is at least
\* x, and the last one of the table when no limit is
FirstBracketAtLeast(brackets, x) ==
    LET matching == {i \in 1..Len(brackets) : Leq(x, brackets[i].limit)}
    IN  IF matching = {} THEN brackets[Len(brackets)]
        ELSE brackets[CHOOSE i \in matching : \A j \in matching : i <= j]

TableOf(et) ==
    IF et = "individual" THEN INDIVIDUAL_TAX_BRACKETS
    ELSE IF et = "corporate" THEN CORPORATE_TAX_BRACKETS
    ELSE <<>>

ClosedFormTax(x, et) ==
    IF Leq(x, Zero) THEN Zero
    ELSE LET b == FirstBracketAtLeast(TableOf(et), x)
         IN  Sub(Mul(x, b.rate), b.deduction)

\* C1: for every taxable income x > 0 calculateTax takes the first bracket
\* of the entity's table whose limit is >= x (the last bracket when there
\* is none) and returns x * rate - deduction of it; for x <= 0 it returns 0.
\* This holds of a direct call and of the two calls calculateAllMetrics makes.
C1_FirstBracketClosedForm ==
    /\ pc = "tax" => taxOut = ClosedFormTax(taxIncome, entityType)
    /\ Computed =>
          /\ frame.baseTaxBefore = ClosedFormTax(frame.taxableIncomeBefore, entityType)
          /\ frame.baseTaxAfter = ClosedFormTax(frame.taxableIncomeAfter, entityType)

\* corporate income 200,010,000: the second bracket is the first of three
\* that match, 0.19 * 200,010,000 - 20,000,000 = 18,001,900
C1_Witness ==
    /\ pc = "tax"
    /\ entityType = "corporate"
    /\ taxIncome = Man(20001)
    /\ taxOut = Rat(180019, 100)

\* C2: the period subtotals are grossProfit = revenue - cogs,
\* operatingIncome = grossProfit - sga, net income before adjustment =
\* operatingIncome + nonOpIncome - nonOpExpense, and after adjustment =
\* before - additionalExpenses: functions of the six parsed inputs (the
\* returned num* fields) alone,
\* whatever the settlement month, entity type, credit rate, local-tax flag
\* and industry.
C2_PeriodSubtotals ==
    Computed =>
        LET gp == Sub(result.numRevenue, result.numCogs)
            oi == Sub(gp, result.numSga)
            nb == Sub(Add(oi, result.numNonOpIncome), result.numNonOpExpense)
        IN  /\ result.grossProfit = gp
            /\ result.operatingIncome = oi
            /\ result.currentNetIncomeBeforeAdjustment = nb
            /\ result.currentNetIncomeAfterAdjustment =
                   Sub(nb, result.numAdditionalExpenses)

\* the scenario record: 60,000,000 / 40,000,000 / 40,500,000 / 39,500,000,
\* here with a settlement month other than 12, a credit and the local tax
C2_Witness ==
    /\ Computed
    /\ data = ScenarioYearData
    /\ settlementMonth = 9
    /\ includeLocalTax
    /\ taxCreditRate = Rat(3, 10)
    /\ result.grossProfit = Man(6000)
    /\ result.operatingIncome = Man(4000)
    /\ result.currentNetIncomeBeforeAdjustment = Man(4050)
    /\ result.currentNetIncomeAfterAdjustment = Man(3950)

\* C3: annualizedNetIncomeAfterAdjustment is
\* annualizedNetIncomeBeforeAdjustment minus the additional expenses at
\* their raw amount, for every settlement month: the additional expenses
\* are never multiplied by the annualization factor.
C3_AdditionalExpensesFlat ==
    Computed =>
        /\ result.annualizedNetIncomeAfterAdjustment =
               Sub(result.annualizedNetIncomeBeforeAdjustment,
                   result.numAdditionalExpenses)

\* six months, factor 2: 2 * 40,500,000 - 1,000,000 = 80,000,000, which is
\* not twice the period's 39,500,000
C3_Witness ==
    /\ Computed
    /\ data = ScenarioYearData
    /\ settlementMonth = 6
    /\ result.annualizedRevenue = Man(20000)
    /\ result.annualizedNetIncomeAfterAdjustment = Man(8000)
    /\ result.annualizedNetIncomeAfterAdjustment #
           Mul(result.currentNetIncomeAfterAdjustment, frame.annualizationFactor)

C7_TaxableIncomeClamped ==
    Computed =>
        LET aNb == result.annualizedNetIncomeBeforeAdjustment
            aNa == result.annualizedNetIncomeAfterAdjustment
            Clamp(x) == IF Leq(x, Zero) THEN Zero ELSE x
        IN  /\ frame.taxableIncomeBefore = Clamp(Sub(aNb, frame.deduction))
            /\ frame.taxableIncomeAfter = Clamp(Sub(aNa, frame.deduction))
            /\ Leq(aNb, frame.deduction) =>
                   frame.baseTaxBefore = Zero /\ result.finalTaxBefore = Zero
            /\ Leq(aNa, frame.deduction) =>
                   result.baseTaxAfter = Zero /\ result.finalTaxAfter = Zero

\* a loss in both branches, with the local tax and a partial credit
C7_Witness ==
    /\ Computed
    /\ settlementMonth = 8
    /\ includeLocalTax
    /\ taxCreditRate = Rat(3, 10)
    /\ Lt(result.annualizedNetIncomeBeforeAdjustment, Zero)
    /\ Lt(result.annualizedNetIncomeAfterAdjustment, Zero)
    /\ frame.taxableIncomeBefore = Zero
    /\ frame.taxableIncomeAfter = Zero
    /\ result.finalTaxBefore = Zero
    /\ result.finalTaxAfter = Zero

\* C8: the basic deduction of 1,500,000 is subtracted from the annualized
\* net income of both branches exactly when the entity type is individual;
\* for corporate the deduction is 0 and the taxable income is max(0,
\* annualized net income).
C8_BasicDeductionIndividualOnly ==
    Computed =>
        LET aNb == result.annualizedNetIncomeBeforeAdjustment
            aNa == result.annualizedNetIncomeAfterAdjustment
            Clamp(x) == IF Leq(x, Zero) THEN Zero ELSE x
        IN  /\ entityType = "individual" =>
                  /\ frame.deduction = Rat(1500000, WonPerUnit)
                  /\ frame.taxableIncomeBefore = Clamp(Sub(aNb, Rat(1500000, WonPerUnit)))
                  /\ frame.taxableIncomeAfter = Clamp(Sub(aNa, Rat(1500000, WonPerUnit)))
            /\ entityType = "corporate" =>
                  /\ frame.deduction = Zero
                  /\ frame.taxableIncomeBefore = Clamp(aNb)
                  /\ frame.taxableIncomeAfter = Clamp(aNa)

\* the scenario for a corporate entity: 40,500,000 and 39,500,000 are taxed
\* whole
C8_Witness ==
    /\ Computed
    /\ entityType = "corporate"
    /\ data = ScenarioYearData
    /\ settlementMonth = 12
    /\ frame.taxableIncomeBefore = Man(4050)
    /\ frame.taxableIncomeAfter = Man(3950)

\* C9: with the entity type unset calculateAllMetrics returns a record with
\* no field, whatever the other arguments; with it set the record has all
\* its fields, so the unset entity type is the only short-circuit.
C9_UnsetEntityOnlyShortCircuit ==
    pc = "metrics" =>
        /\ entityType = NULL => DOMAIN result = {}
        /\ entityType # NULL => DOMAIN result = ReturnedFields

\* the scenario, twelve months, with no entity type
C9_Witness ==
    /\ pc = "metrics"
    /\ entityType = NULL
    /\ data = ScenarioYearData
    /\ settlementMonth = 12
    /\ includeLocalTax
    /\ DOMAIN result = {}

\* the strings of the alphabet that are numeric literals: an optional sign,
\* then digits with at most one point and at least one digit, between
\* optional blanks
IsBlank(s) == \A i \in 1..Len(s) : s[i] = " "

IsDecimalLiteral(b) ==
    \/ b # <<>> /\ AllDigits(b)
    \/ \E p \in 1..Len(b) :
          /\ b[p] = "."
          /\ Len(b) > 1
          /\ AllDigits(SubSeq(b, 1, p - 1))
          /\ AllDigits(SubSeq(b, p + 1, Len(b)))

IsNumeric(s) ==
    \E i, j \in 1..Len(s) :
        /\ i <= j
        /\ IsBlank(SubSeq(s, 1, i - 1))
        /\ IsBlank(SubSeq(s, j + 1, Len(s)))
        /\ \/ IsDecimalLiteral(SubSeq(s, i, j))
           \/ s[i] \in {"+", "-"} /\ IsDecimalLiteral(SubSeq(s, i + 1, j))

NumOf == [revenue |-> "numRevenue", cogs |-> "numCogs", sga |-> "numSga",
          nonOpIncome |-> "numNonOpIncome", nonOpExpense |-> "numNonOpExpense",
          additionalExpenses |-> "numAdditionalExpenses"]

\* C10: each of the six input strings is parsed to a number on its own: a
\* blank or non-numeric string gives 0 for its field, a string of digits
\* gives its decimal value (in won), and no field's number depends on
\* another field's string.
C10_FieldsParsedAlone ==
    Computed =>
        \A k \in YearDataFields :
            /\ ~IsNumeric(data[k]) => result[NumOf[k]] = Zero
            /\ data[k] # <<>> /\ AllDigits(data[k]) =>
                   result[NumOf[k]] = Rat(DigitsValue(data[k]), WonPerUnit)
            /\ result[NumOf[k]] = ParseField(data[k])

\* the mixed record: the blank, the letter and the literal with two points
\* give 0, and the three other fields keep their values
C10_Witness ==
    /\ Computed
    /\ data = MixedYearData
    /\ result.numRevenue = Man(250)
    /\ result.numCogs = Zero
    /\ result.numSga = Neg(Man(150))
    /\ result.numNonOpIncome = Zero
    /\ result.numNonOpExpense = Zero
    /\ result.numAdditionalExpenses = Man(3)
    /\ result.grossProfit = Man(250)

-----------------------------------------------------------------------------
(* The benchmark margin, the bracket limits and the boundary inputs.       *)

\* C11: profitMargin is the table's margin of (industry, entityType) when
\* the industry is one of the table's six, and 0 for every other industry
\* string; safeProfit is annualizedRevenue * profitMargin, hence 0 for every
\* industry that is not in the table.  The names inherited from
\* Object.prototype refute it: the lookup yields a function object, the
\* margin is undefined and the safe profit NaN.
C11_UnknownIndustryMarginZero ==
    Computed =>
        /\ industry \in IndustryKeys =>
               /\ result.profitMargin = INDUSTRY_PROFIT_MARGINS[industry][entityType]
               /\ result.safeProfit =
                      Mul(result.annualizedRevenue, result.profitMargin)
        /\ industry \notin IndustryKeys =>
               /\ result.profitMargin = Zero
               /\ result.safeProfit = Zero

\* C12: at every finite limit L of the entity's table an income of exactly
\* L is taxed with the bracket whose limit is L, and an income just above L
\* (one won above, or one unit of 10^4 won above) with the next bracket; for
\* individual, 14,000,000 gives 840,000 and 14,000,001 gives
\* 0.15 * 14,000,001 - 1,260,000 = 840,000.15.
C12_LimitBelongsToItsBracket ==
    pc = "tax" =>
        LET t == TableOf(entityType)
            TaxedWith(b) ==
                /\ taxBracket = b
                /\ taxOut = Sub(Mul(taxIncome, b.rate), b.deduction)
        IN  /\ \A i \in 1..(Len(t) - 1) :
                   /\ taxIncome = t[i].limit => TaxedWith(t[i])
                   /\ taxIncome = Add(t[i].limit, One) => TaxedWith(t[i + 1])
                   /\ t[i].limit \in SmallLimits
                          /\ taxIncome = Add(t[i].limit, OneWon) =>
                              TaxedWith(t[i + 1])
            /\ entityType = "individual" /\ taxIncome = Rat(14000000, WonPerUnit) =>
                   taxOut = Rat(840000, WonPerUnit)
            /\ entityType = "individual" /\ taxIncome = Rat(14000001, WonPerUnit) =>
                   taxOut = Sub(Mul(Rat(14000001, WonPerUnit), Rat(15, 100)),
                                Rat(1260000, WonPerUnit))

\* individual, 14,000,001 won: 840,000.15 won, by the second bracket
C12_Witness ==
    /\ pc = "tax"
    /\ entityType = "individual"
    /\ taxIncome = Add(INDIVIDUAL_TAX_BRACKETS[1].limit, OneWon)
    /\ taxBracket = INDIVIDUAL_TAX_BRACKETS[2]
    /\ taxOut = Rat(84000015, 100 * WonPerUnit)

\* the tax by marginal accumulation from bracket i on: the slice of the
\* income x between the limit below bracket i and its own limit is taxed at
\* the rate of bracket i
RECURSIVE MarginalFrom(_, _, _)
MarginalFrom(t, x, i) ==
    IF i > Len(t) THEN Zero
    ELSE LET lower == IF i = 1 THEN Zero ELSE t[i - 1].limit
             upper == IF Leq(x, t[i].limit) THEN x ELSE t[i].limit
         IN  IF Leq(x, lower) THEN Zero
             ELSE Add(Mul(Sub(upper, lower), t[i].rate), MarginalFrom(t, x, i + 1))

\* C13: for both tables the tax calculateTax returns for an income > 0,
\* income * rate - deduction, is the tax by marginal accumulation, every
\* slice of the income taxed at the rate of its own bracket; and the closed
\* forms of two adjacent brackets agree at the finite limit between them.
C13_ClosedFormIsMarginal ==
    /\ pc = "tax" /\ Lt(Zero, taxIncome) =>
           taxOut = MarginalFrom(TableOf(entityType), taxIncome, 1)
    /\ \A t \in {INDIVIDUAL_TAX_BRACKETS, CORPORATE_TAX_BRACKETS} :
           \A i \in 1..(Len(t) - 1) :
               Sub(Mul(t[i].limit, t[i].rate), t[i].deduction) =
                   Sub(Mul(t[i].limit, t[i + 1].rate), t[i + 1].deduction)

\* corporate, 400,000,000,000: 0.24 * income - 9,420,000,000 =
\* 86,580,000,000, the sum of four slices
C13_Witness ==
    /\ pc = "tax"
    /\ entityType = "corporate"
    /\ taxIncome = Man(40000000)
    /\ taxBracket = CORPORATE_TAX_BRACKETS[4]
    /\ taxOut = Man(8658000)
    /\ taxOut = MarginalFrom(CORPORATE_TAX_BRACKETS, taxIncome, 1)

\* the annualized lines and subtotals up to the net income before
\* adjustment
AnnualizedFields ==
    {"annualizedRevenue", "annualizedCogs", "annualizedSga",
     "annualizedNonOpIncome", "annualizedNonOpExpense", "annualizedGrossProfit",
     "annualizedOperatingIncome", "annualizedNetIncomeBeforeAdjustment"}

C15_FullCreditNoTax ==
    Computed /\ taxCreditRate = One =>
        /\ result.taxCreditAmountAfter = result.baseTaxAfter
        /\ result.taxAfterCredit = Zero
        /\ result.finalTaxAfter = Zero

\* the scenario, individual, twelve months, local tax included: the base
\* tax of 4,440,000 is credited whole
C15_Witness ==
    /\ Computed
    /\ taxCreditRate = One
    /\ includeLocalTax
    /\ data = ScenarioYearData
    /\ settlementMonth = 12
    /\ entityType = "individual"
    /\ result.baseTaxAfter = Man(444)
    /\ result.taxCreditAmountAfter = Man(444)
    /\ result.taxAfterCredit = Zero
    /\ result.finalTaxAfter = Zero

\* the run that differs from the one just made in the local-tax flag alone
RunWithoutLocalTax ==
    calculateAllMetrics(data, settlementMonth, entityType, FALSE, taxCreditRate,
                        industry)

C17_ZeroInputsZeroFields ==
    Computed /\ (\A k \in YearDataFields : result[NumOf[k]] = Zero) =>
        \A k \in ReturnedFields \ {"profitMargin"} : result[k] = Zero

-----------------------------------------------------------------------------
(* Relations between runs, and the worked scenario.                        *)

\* the revenue strings a second run is given
RevenueSamples == SampleSet \cup {ScenarioYearData.revenue, MixedYearData.revenue}

\* the period subtotals of the run that differs from the one just made in
\* its revenue string alone: the five other fields parse as they did (C10)
SubtotalsWithRevenue(str) ==
    PeriodSubtotals([k \in {NumOf[f] : f \in YearDataFields} |->
                        IF k = "numRevenue" THEN ParseField(str) ELSE result[k]],
                    settlementMonth)

PeriodSubtotalFields ==
    {"grossProfit", "operatingIncome", "currentNetIncomeBeforeAdjustment",
     "currentNetIncomeAfterAdjustment"}

\* C18: with the other five inputs and the configuration fixed, a run with a
\* revenue that is not smaller has a grossProfit, an operatingIncome and
\* net incomes before and after adjustment that are not smaller.
C18_SubtotalsMonotoneInRevenue ==
    Computed =>
        \A str \in RevenueSamples :
            LET other == SubtotalsWithRevenue(str)
            IN  Leq(result.numRevenue, other.numRevenue) =>
                    \A k \in PeriodSubtotalFields : Leq(result[k], other[k])

\* the scenario against a revenue of 900,000,000: the gross profit rises
\* from 60,000,000 to 860,000,000 and the net income after adjustment from
\* 39,500,000 to 839,500,000
C18_Witness ==
    /\ Computed
    /\ data = ScenarioYearData
    /\ result.grossProfit = Man(6000)
    /\ result.currentNetIncomeAfterAdjustment = Man(3950)
    /\ SubtotalsWithRevenue(SampleStrings[3]).numRevenue = Man(90000)
    /\ SubtotalsWithRevenue(SampleStrings[3]).grossProfit = Man(86000)
    /\ SubtotalsWithRevenue(SampleStrings[3]).currentNetIncomeAfterAdjustment =
           Man(83950)

\* the inputs of the worked scenario: individual, twelve months, the
\* scenario record, no credit, no local tax, an industry whose individual
\* margin is 0.117
ScenarioRun ==
    /\ Computed
    /\ entityType = "individual"
    /\ settlementMonth = 12
    /\ data = ScenarioYearData
    /\ taxCreditRate = Zero
    /\ ~includeLocalTax
    /\ industry = "wholesale_retail"

\* C19: the worked scenario yields grossProfit 60,000,000, operatingIncome
\* 40,000,000, net income 40,500,000 before and 39,500,000 after
\* adjustment, a taxable income of 38,000,000 in the 15% bracket,
\* baseTaxAfter 4,440,000, finalTaxAfter 4,440,000 and safeProfit
\* 11,700,000.
C19_WorkedScenario ==
    ScenarioRun =>
        /\ result.grossProfit = Rat(60000000, WonPerUnit)
        /\ result.operatingIncome = Rat(40000000, WonPerUnit)
        /\ result.currentNetIncomeBeforeAdjustment = Rat(40500000, WonPerUnit)
        /\ result.currentNetIncomeAfterAdjustment = Rat(39500000, WonPerUnit)
        /\ frame.taxableIncomeAfter = Rat(38000000, WonPerUnit)
        /\ applicableBracket(INDIVIDUAL_TAX_BRACKETS, frame.taxableIncomeAfter).rate
               = Rat(15, 100)
        /\ result.baseTaxAfter = Rat(4440000, WonPerUnit)
        /\ result.finalTaxAfter = Rat(4440000, WonPerUnit)
        /\ result.safeProfit = Rat(11700000, WonPerUnit)

\* the scenario has been run: margin 0.117, safe profit 11,700,000
C19_Witness ==
    /\ ScenarioRun
    /\ result.numRevenue = Man(10000)
    /\ result.profitMargin = Rat(117, 1000)
    /\ result.safeProfit = Man(1170)
    /\ result.finalTaxAfter = Man(444)

\* C20: whichever revision of calculateAllMetrics runs, each of numRevenue,
\* numCogs, numSga, numNonOpIncome, numNonOpExpense and
\* numAdditionalExpenses is the parsed value of its input string, at the
\* magnitude entered, with no unit factor applied.
C20_NoImplicitScaling ==
    Computed =>
        \A f \in YearDataFields :
            LET parsed == Number(data[f])
            IN  result[NumOf[f]] = IF IsNumeric(data[f]) THEN parsed ELSE Zero

\* C21: a call with the entity type set returns a record whose every field
\* is a defined number, whatever the six strings, the settlement month, the
\* credit rate and the industry string.
C21_EveryFieldDefinedNumber ==
    Computed => \A k \in ReturnedFields : IsFinite(result[k])

\* C27: for either bracket table the tax of an income >= 0 is not negative
\* and is at most the tax of every larger income, also across the limits.
C27_TaxNonDecreasing ==
    pc = "tax" /\ Leq(Zero, taxIncome) =>
        /\ Leq(Zero, taxOut)
        /\ \A x \in IncomeSamples :
               Leq(taxIncome, x) => Leq(taxOut, calculateTax(x, entityType))

\* the tax of an income one won above a limit has been computed, and is
\* more than the tax at the limit
C27_Witness ==
    /\ pc = "tax"
    /\ \E l \in SmallLimits :
          /\ taxIncome = Add(l, OneWon)
          /\ Lt(calculateTax(l, entityType), taxOut)

-----------------------------------------------------------------------------
(* Properties of the App component.                                        *)

NonBlank == <<"5", "0", "0", "0", "0", "0", "0", "0">>

\* C22: the three years are computed independently.  Two years that hold
\* the same six strings have the same result under the shared configuration,
\* and a step that changes yearsData changes one field of one year and
\* leaves every other field, and the results of the other years, as they
\* were.
C22_YearsIndependent ==
    /\ [](\A y1, y2 \in YEARS :
             yearsData[y1] = yearsData[y2] => allCalculations[y1] = allCalculations[y2])
    /\ [][yearsData' # yearsData =>
             \E year \in YEARS, field \in YearDataFields :
                /\ \A y \in YEARS, f \in YearDataFields :
                       <<y, f>> # <<year, field>> => yearsData'[y][f] = yearsData[y][f]
                /\ \A y \in YEARS \ {year} :
                       allCalculations'[y] = allCalculations[y]]_vars

\* the revenue of 2023 and of 2025 and the additional expenses of 2025 have
\* been typed in, 2024 is blank, and the three results differ
C22_Witness ==
    /\ entityType = "individual"
    /\ settlementMonth = 12
    /\ yearsData[2023].revenue = NonBlank
    /\ yearsData[2024] = initialYearData
    /\ yearsData[2025].revenue = NonBlank
    /\ yearsData[2025].additionalExpenses = NonBlank
    /\ allCalculations[2023].finalTaxAfter # allCalculations[2024].finalTaxAfter
    /\ allCalculations[2023].finalTaxAfter # allCalculations[2025].finalTaxAfter
    /\ allCalculations[2024].finalTaxAfter = Zero

\* C23: in every state allCalculations holds, for each year, what
\* calculateAllMetrics returns for the current strings of that year and the
\* current configuration, an unset settlement month being passed as 0.
C23_NeverStale ==
    \A y \in YEARS :
        allCalculations[y] =
            MetricsOfForm[<<yearsData[y],
                           IF settlementMonth = UnsetMonth THEN 0 ELSE settlementMonth,
                           entityType, includeLocalTax, taxCreditRate, industry>>]

\* every part of the configuration has been changed after a revenue was
\* typed in, and the result shows the credit
C23_Witness ==
    /\ entityType = "corporate"
    /\ settlementMonth = 12
    /\ includeLocalTax
    /\ industry = "manufacturing"
    /\ taxCreditType = "startup"
    /\ taxCreditRate = Rat(1, 2)
    /\ yearsData[2024].revenue = NonBlank
    /\ Lt(Zero, allCalculations[2024].taxCreditAmountAfter)
    /\ allCalculations[2024].profitMargin = Rat(23, 1000)
    /\ allCalculations[2023].finalTaxAfter = Zero

\* the conditions handleViewResult asks for
GatingConditions ==
    /\ entityType \in {"individual", "corporate"}
    /\ settlementMonth > 0
    /\ taxCreditType \in {"none", "startup", "special"}
    /\ taxCreditType \in {"startup", "special"} => taxCreditRate # Zero

\* C24: whenever the result view is shown the entity type, the settlement
\* month and the credit type are set and the rate of a startup or special
\* credit is not 0; and a step taken from the form while one of these
\* fails leaves the form on screen and starts no analysis.
C24_ResultViewGated ==
    /\ [](viewMode = "result" => GatingConditions)
    /\ [][viewMode = "input" /\ ~GatingConditions =>
             /\ viewMode' = "input"
             /\ pc' # "analysis"
             /\ requests' <= requests]_vars

\* the result view is shown for a special credit of 15%
C24_Witness ==
    /\ viewMode = "result"
    /\ entityType = "corporate"
    /\ settlementMonth = 12
    /\ taxCreditType = "special"
    /\ taxCreditRate = Rat(15, 100)

\* C25: the rate is 0 while the credit type is 'none' or unset, is 0, 0.5
\* or 1.0 while it is 'startup', and is 0, 0.05, 0.1, 0.15, 0.2 or 0.3 while
\* it is 'special'; a step that changes the credit type leaves the rate 0.
C25_RateBelongsToType ==
    /\ taxCreditType \in {NULL, "none"} => taxCreditRate = Zero
    /\ taxCreditType = "startup" => taxCreditRate \in {Zero, Rat(1, 2), One}
    /\ taxCreditType = "special" =>
           taxCreditRate \in {Zero, Rat(5, 100), Rat(10, 100), Rat(15, 100),
                              Rat(20, 100), Rat(30, 100)}

\* a startup rate was chosen before the type became 'special', and the rate
\* is the special one chosen since
C25_Witness ==
    /\ entityType = "individual"
    /\ taxCreditType = "special"
    /\ taxCreditRate = Rat(30, 100)
    /\ \E y \in YEARS : Lt(Zero, allCalculations[y].taxCreditAmountAfter)

C29_LoadingSetThenCleared ==
    [][/\ requests' > requests => isLoadingAnalysis'
       /\ requests' < requests =>
              ~isLoadingAnalysis' /\ aiAnalysis' \in {"text", "unprocessable", "failed"}]_vars

\* the one fetch in flight has ended with an unexpected body and the flag
\* is false
C29_Witness ==
    /\ requests = 0
    /\ aiAnalysis = "unprocessable"
    /\ ~isLoadingAnalysis
    /\ viewMode = "result"

\* C30: isLoadingAnalysis is true in every state in which a fetch of
\* getAIAnalysis is in flight, also when a second one was started while the
\* first was pending.
C30_LoadingWhileInFlight ==
    requests > 0 => isLoadingAnalysis

====
